---- MODULE Spec2Model ----
(***************************************************************************)
(* Miscalibration error (src/miscalibration_error.ipynb).                  *)
(*                                                                         *)
(* Two functions are modelled:                                             *)
(*   KullbackLeiblerDivergence(interactDist, recommendedDist)              *)
(*   ComputeGenreDistribution(itemList, p_g_i_final)                       *)
(*                                                                         *)
(* The code computes in IEEE-754 binary64 (Python float / numpy float64).  *)
(* The numbers of the model are binary64 values: a finite non-negative     *)
(* double is [cls |-> "fin", m |-> mantissa, e |-> exponent], standing for *)
(* m * 2^e, with m = 0 (and e = 0) or 2^52 <= m < 2^53.  Mantissas exceed  *)
(* the integers of TLC, so they are kept as little-endian sequences of     *)
(* 14-bit limbs.  Every arithmetic operation rounds to nearest, ties to    *)
(* even, as the hardware does.  Exponents stay far from the overflow and   *)
(* subnormal ranges for the inputs considered, so neither is modelled.     *)
(***************************************************************************)
EXTENDS Integers, Sequences, FiniteSets

(***************************************************************************)
(* Natural numbers of arbitrary size: sequences of limbs, least            *)
(* significant first, without high zero limbs; << >> is 0.                 *)
(***************************************************************************)
LimbBits == 2 * 7
Base == 2^LimbBits

Limb(a, i) == IF i <= Len(a) THEN a[i] ELSE 0

\* a without its leading zero limbs
BTrim(a) ==
  LET nz == {i \in 1..Len(a) : a[i] # 0}
  IN  IF nz = {} THEN << >>
      ELSE SubSeq(a, 1, CHOOSE i \in nz : \A j \in nz : j <= i)

RECURSIVE BFromInt(_)
BFromInt(n) == IF n = 0 THEN << >> ELSE <<n % Base>> \o BFromInt(n \div Base)

\* the addition of a and b carries into limb i
CarryInto(a, b, i) ==
  \E j \in 1..(i - 1) :
    /\ Limb(a, j) + Limb(b, j) >= Base
    /\ \A k \in (j + 1)..(i - 1) : Limb(a, k) + Limb(b, k) = Base - 1

BAdd(a, b) ==
  LET n == IF Len(a) >= Len(b) THEN Len(a) ELSE Len(b)
  IN  BTrim([i \in 1..(n + 1) |->
              (Limb(a, i) + Limb(b, i)
                 + (IF CarryInto(a, b, i) THEN 1 ELSE 0)) % Base])

\* the subtraction of b from a borrows from limb i
BorrowFrom(a, b, i) ==
  \E j \in 1..(i - 1) :
    /\ a[j] < Limb(b, j)
    /\ \A k \in (j + 1)..(i - 1) : a[k] = Limb(b, k)

\* a - b for a >= b
BSub(a, b) ==
  BTrim([i \in 1..Len(a) |->
          (a[i] - Limb(b, i)
             - (IF BorrowFrom(a, b, i) THEN 1 ELSE 0) + Base) % Base])

\* -1, 0, 1 as a < b, a = b, a > b
BCmp(a, b) ==
  IF Len(a) < Len(b) THEN -1
  ELSE IF Len(a) > Len(b) THEN 1
  ELSE LET diff == {i \in 1..Len(a) : a[i] # b[i]}
       IN  IF diff = {} THEN 0
           ELSE LET top == CHOOSE i \in diff : \A j \in diff : j <= i
                IN  IF a[top] < b[top] THEN -1 ELSE 1

\* a * d for a limb-sized d
BMulLimb(a, d) ==
  IF d = 0 THEN << >>
  ELSE BAdd([i \in 1..Len(a) |-> (a[i] * d) % Base],
            <<0>> \o [i \in 1..Len(a) |-> (a[i] * d) \div Base])

Zeros(k) == [i \in 1..k |-> 0]

\* acc + a * (the limbs of b from the j-th on) * Base^(j - 1); each partial
\* sum is computed before the next limb is taken
RECURSIVE BMulFrom(_, _, _, _)
BMulFrom(a, b, j, acc) ==
  IF j > Len(b) THEN acc
  ELSE LET sum == BAdd(acc, Zeros(j - 1) \o BMulLimb(a, b[j]))
       IN  IF Len(sum) = 0 THEN BMulFrom(a, b, j + 1, << >>)
           ELSE BMulFrom(a, b, j + 1, sum)

BMul(a, b) == BMulFrom(a, b, 1, << >>)

\* quotient and remainder of a by a limb-sized n > 0, from the top limb down
RECURSIVE BDivLimbFrom(_, _, _, _)
BDivLimbFrom(a, n, i, r) ==
  IF i = 0 THEN [q |-> << >>, r |-> r]
  ELSE LET cur  == r * Base + a[i]
           rest == BDivLimbFrom(a, n, i - 1, cur % n)
       IN  [q |-> rest.q \o <<cur \div n>>, r |-> rest.r]

BDivLimb(a, n) ==
  LET d == BDivLimbFrom(a, n, Len(a), 0)
  IN  [q |-> BTrim(d.q), r |-> d.r]

\* a * 2^k
BShl(a, k) ==
  IF a = << >> THEN a
  ELSE Zeros(k \div LimbBits) \o BMulLimb(a, 2^(k % LimbBits))

\* floor(a / 2^k)
BShr(a, k) ==
  LET n == k \div LimbBits
      r == k % LimbBits
  IN  IF n >= Len(a) THEN << >>
      ELSE BTrim([i \in 1..(Len(a) - n) |->
                   a[i + n] \div 2^r
                     + (Limb(a, i + n + 1) % 2^r) * 2^(LimbBits - r)])

RECURSIVE IntBitLen(_)
IntBitLen(n) == IF n = 0 THEN 0 ELSE 1 + IntBitLen(n \div 2)

\* a mod 2^k
BLow(a, k) ==
  LET n == k \div LimbBits
  IN  IF n >= Len(a) THEN a
      ELSE BTrim([i \in 1..(n + 1) |->
                   IF i <= n THEN a[i] ELSE a[i] % 2^(k % LimbBits)])

BBitLen(a) ==
  IF a = << >> THEN 0 ELSE LimbBits * (Len(a) - 1) + IntBitLen(a[Len(a)])

BIsOdd(a) == a # << >> /\ a[1] % 2 = 1

(***************************************************************************)
(* Exact dyadic numbers m * 2^e (m of any size) and their rounding to      *)
(* binary64.                                                               *)
(***************************************************************************)
\* 52 stored mantissa bits and the implicit leading one
Precision == 52 + 1

\* m * 2^e, with the low zero limbs of m moved into e
Dy(m, e) ==
  LET nz == {i \in 1..Len(m) : m[i] # 0}
      lo == CHOOSE i \in nz : \A j \in nz : i <= j
  IN  IF nz = {} THEN [m |-> << >>, e |-> e]
      ELSE [m |-> SubSeq(m, lo, Len(m)), e |-> e + LimbBits * (lo - 1)]

IntMin(x, y) == IF x <= y THEN x ELSE y

DAdd(x, y) ==
  LET e == IntMin(x.e, y.e)
  IN  Dy(BAdd(BShl(x.m, x.e - e), BShl(y.m, y.e - e)), e)

\* x - y for x >= y
DSub(x, y) ==
  LET e == IntMin(x.e, y.e)
  IN  Dy(BSub(BShl(x.m, x.e - e), BShl(y.m, y.e - e)), e)

DMul(x, y) == Dy(BMul(x.m, y.m), x.e + y.e)

\* -1, 0, 1 as x < y, x = y, x > y
DCmp(x, y) ==
  LET e == IntMin(x.e, y.e)
  IN  BCmp(BShl(x.m, x.e - e), BShl(y.m, y.e - e))

FZero == [cls |-> "fin", m |-> << >>, e |-> 0]
NaN == [cls |-> "nan", m |-> << >>, e |-> 0]
Inf == [cls |-> "inf", m |-> << >>, e |-> 0]

\* exponent of the last place of the smallest and of the largest doubles
MinExp == -(1022 + Precision - 1)
MaxExp == 1024 - Precision

IntMax(x, y) == IF x >= y THEN x ELSE y

\* m * 2^e as a double, infinite beyond the largest double
Finite(m, e) == IF e > MaxExp THEN Inf ELSE [cls |-> "fin", m |-> m, e |-> e]

\* round to nearest, ties to even, to a 53-bit mantissa, or to fewer bits
\* below 2^-1022 (gradual underflow, down to 0.0)
RoundToDouble(d) ==
  LET len == BBitLen(d.m)
      t   == IntMax(d.e + len - Precision, MinExp)
  IN  IF len = 0 THEN FZero
      ELSE IF t <= d.e THEN Finite(BShl(d.m, d.e - t), t)
      ELSE LET s    == t - d.e
               q    == BShr(d.m, s)
               rem  == BLow(d.m, s)
               half == BShl(<<1>>, s - 1)
               c    == BCmp(rem, half)
               up   == c > 0 \/ (c = 0 /\ BIsOdd(q))
               q1   == IF up THEN BAdd(q, <<1>>) ELSE q
           IN  IF q1 = << >> THEN FZero
               ELSE IF BBitLen(q1) > Precision THEN Finite(BShr(q1, 1), t + 1)
               ELSE Finite(q1, t)

FAdd(x, y) == RoundToDouble(DAdd(x, y))
FSub(x, y) == RoundToDouble(DSub(x, y))
FMul(x, y) == RoundToDouble(DMul(x, y))

FromInt(k) == RoundToDouble(Dy(BFromInt(k), 0))

\* limbs of zeros put below the dividend, so that the quotient holds more
\* than a mantissa and a rounding bit
GuardLimbs == Precision \div LimbBits + 2

\* x / n for an integer n >= 0 (n converted to double is exact).  A numpy
\* float64 divided by 0 does not raise: it warns and yields nan for 0.0 / 0
\* and inf otherwise.
FDivInt(x, n) ==
  IF n = 0 THEN (IF x.m = << >> THEN NaN ELSE Inf)
  ELSE IF x.m = << >> THEN FZero
  ELSE LET d == BDivLimb(Zeros(GuardLimbs) \o x.m, n)
           sticky == IF d.r = 0 THEN << >> ELSE <<1>>
       IN  RoundToDouble(Dy(BAdd(BShl(d.q, 1), sticky),
                            x.e - GuardLimbs * LimbBits - 1))

FIsZero(x) == x.m = << >>
FCmp(x, y) == DCmp(x, y)
FOne == FromInt(1)

(***************************************************************************)
(* KullbackLeiblerDivergence(interactDist, recommendedDist)                *)
(***************************************************************************)
\* alpha = 0.01: the literal is the double nearest to 1/100
alpha == FDivInt(FromInt(1), 100)

\* recommendedDist[i] = (1 - alpha) * recommendedDist[i] + alpha * interactDist[i]
\* the same without the factor (1 - alpha)
SmoothUnscaled(qi, pi) == FAdd(qi, FMul(alpha, pi))
Smooth(qi, pi) == FAdd(FMul(FSub(FOne, alpha), qi), FMul(alpha, pi))

\* interactDist[i] * np.log2(interactDist[i] / recommendedDist[i]): log2 is
\* transcendental, so a term is kept as the pair of doubles it is computed
\* from (p, and q after the assignment above); ScoreCmp below compares sums
\* of terms exactly.
Term(pi, qi) == [p |-> pi, q |-> qi]

\* if interactDist[i] == 0.0: continue
\* (SkipNever: the loop without that test)
SkipNever(pi) == FALSE
Skip(pi) == FIsZero(pi)

\* The loop from index i on (1-based here, 0-based in the code), with the
\* terms added to klDive so far.  Reading recommendedDist[i] past its end
\* raises IndexError and leaves the entries already assigned as they are.
RECURSIVE KLLoop(_, _, _, _)
KLLoop(p, q, i, kl) ==
  IF i > Len(p)
  THEN [outcome |-> "returned", recommendedDist |-> q, klDive |-> kl]
  ELSE IF Skip(p[i])
  THEN KLLoop(p, q, i + 1, kl)
  ELSE IF i > Len(q)
  THEN [outcome |-> "IndexError", recommendedDist |-> q, klDive |-> kl]
  ELSE LET qt == Smooth(q[i], p[i])
       IN  KLLoop(p, [q EXCEPT ![i] = qt], i + 1, Append(kl, Term(p[i], qt)))

KullbackLeiblerDivergence(p, q) == KLLoop(p, q, 1, << >>)

(***************************************************************************)
(* ComputeGenreDistribution(itemList, p_g_i_final)                         *)
(***************************************************************************)
\* p_g_i[:,1:], the 0/1 genre flags of each movie (a small table in place
\* of the 1682 x 19 one): movies with two, three and one genre
GenreFlags ==
  << <<0, 1, 1>>,
     <<1, 1, 1>>,
     <<0, 0, 1>> >>

NumRows == Len(GenreFlags)
NumCols == Len(GenreFlags[1])

RECURSIVE IntSum(_, _)
IntSum(v, i) == IF i > Len(v) THEN 0 ELSE v[i] + IntSum(v, i + 1)

\* vect = np.sum(p_g_i[:,1:], axis=1)[:,None]; p_g_i_final = p_g_i[:,1:]/vect[:]
p_g_i_final ==
  [r \in 1..NumRows |->
     [c \in 1..NumCols |->
        FDivInt(FromInt(GenreFlags[r][c]), IntSum(GenreFlags[r], 1))]]

\* numpy's integer-array indexing of the rows: an index in -NumRows..-1
\* counts from the end, one outside -NumRows..NumRows-1 raises IndexError.
\* The code's indices are 0-based; the rows here are 1..NumRows.
IndexInBounds(id) == -NumRows <= id /\ id < NumRows
RowOf(id) == IF id >= 0 THEN id + 1 ELSE id + NumRows + 1

\* p_g_i_final[itemList,:]
\* (SelectRowsDedup: each id taken once, as if the list were a set)
SelectRowsDedup(itemList) ==
  LET first(k) == \A j \in 1..(k - 1) : itemList[j] # itemList[k]
  IN  SelectSeq([k \in 1..Len(itemList) |->
                   IF first(k) THEN p_g_i_final[RowOf(itemList[k])] ELSE << >>],
                LAMBDA row : row # << >>)
SelectRows(itemList) ==
  [k \in 1..Len(itemList) |-> p_g_i_final[RowOf(itemList[k])]]

\* .sum(axis=0): the rows are added one after the other, column by column
RECURSIVE ColumnSumFrom(_, _, _, _)
ColumnSumFrom(rows, c, k, acc) ==
  IF k > Len(rows) THEN acc
  ELSE ColumnSumFrom(rows, c, k + 1, FAdd(acc, rows[k][c]))

ColumnSum(rows, c) == ColumnSumFrom(rows, c, 1, FZero)

\* / len(itemList)   (DivideByOne: the sum returned undivided)
DivideByOne(x, n) == x
Divide(x, n) == FDivInt(x, n)

ComputeGenreDistribution(itemList) ==
  IF \E k \in 1..Len(itemList) : ~IndexInBounds(itemList[k])
  THEN [outcome |-> "IndexError", dist |-> << >>]
  ELSE [outcome |-> "returned",
        dist |-> [c \in 1..NumCols |->
                    Divide(ColumnSum(SelectRows(itemList), c),
                           Len(itemList))]]

(***************************************************************************)
(* The caller.  From a fresh start it either scores two vectors            *)
(* (interactDist, recommendedDist) and may then score the same two objects *)
(* again, or aggregates an item list.  The vectors are Python lists or     *)
(* numpy arrays, which the callee receives by reference.                   *)
(***************************************************************************)
MaxLen == 3
MaxCalls == 2
MaxItems == 3

\* k/4 for k = 0..4: dyadic, so each is a double and sums of them are exact
Probs == {FDivInt(FromInt(k), 4) : k \in 0..4}

RECURSIVE ExactSumFrom(_, _)
ExactSumFrom(v, i) ==
  IF i > Len(v) THEN Dy(<< >>, 0)
  ELSE DAdd(Dy(v[i].m, v[i].e), ExactSumFrom(v, i + 1))

\* the sum of the entries of v as a real number, without rounding
ExactSum(v) == ExactSumFrom(v, 1)

DAbsDiff(x, y) == IF DCmp(x, y) >= 0 THEN DSub(x, y) ELSE DSub(y, x)

\* |x - y| < 1e-9
Within1e9(x, y) ==
  DCmp(DMul(DAbsDiff(x, y), Dy(BFromInt(1000000000), 0)), Dy(<<1>>, 0)) < 0

DOne == Dy(<<1>>, 0)

\* a distribution of the spec: non-negative entries that sum to 1 up to the
\* floating-point tolerance 1e-9
ValidDist(v) ==
  /\ Len(v) > 0
  /\ \A i \in 1..Len(v) : v[i].cls = "fin"
  /\ Within1e9(ExactSum(v), DOne)

VectorsOfLen(n) == {v \in [1..n -> Probs] : ValidDist(v)}

\* the smallest positive double, 2^-1074 (5e-324)
NearZero == Finite(<<1>>, MinExp)

\* distributions over two categories with a near-zero probability: their
\* entries sum to 1 within the tolerance
NearZeroVectors == {v \in [1..2 -> {FZero, NearZero, FOne}] : ValidDist(v)}

\* the vectors the caller passes: the empty one, the distributions over
\* one to MaxLen categories, and those with a near-zero probability
Vectors ==
  {<< >>} \cup UNION {VectorsOfLen(n) : n \in 1..MaxLen} \cup NearZeroVectors

ItemIds == (-(NumRows + 1))..NumRows
ItemLists == UNION {[1..n -> ItemIds] : n \in 0..MaxItems}

VARIABLES
  phase,             \* "init", "scored", "aggregated": the call made last
  interactDist,      \* the caller's p vector, as it is now
  recommendedDist,   \* the caller's q vector, as it is now
  interactBefore,    \* p when the last call of the scorer began
  recommendedBefore, \* q when the last call of the scorer began
  outcome,           \* "none", "returned", "IndexError"
  klDive,            \* the terms of klDive when the scorer ended
  calls,             \* calls of the scorer on these two objects
  prevOutcome,       \* outcome of the call before the last, on the same objects
  prevKlDive,        \* its klDive
  itemList,          \* the aggregator's argument
  aggOutcome,        \* "none", "returned", "IndexError"
  aggDist            \* the vector the aggregator returned

vars == <<phase, interactDist, recommendedDist, interactBefore,
          recommendedBefore, outcome, klDive, calls, prevOutcome, prevKlDive,
          itemList, aggOutcome, aggDist>>

Init ==
  /\ phase = "init"
  /\ interactDist = << >>
  /\ recommendedDist = << >>
  /\ interactBefore = << >>
  /\ recommendedBefore = << >>
  /\ outcome = "none"
  /\ klDive = << >>
  /\ calls = 0
  /\ prevOutcome = "none"
  /\ prevKlDive = << >>
  /\ itemList = << >>
  /\ aggOutcome = "none"
  /\ aggDist = << >>

NoAggregate == /\ itemList' = << >> /\ aggOutcome' = "none" /\ aggDist' = << >>

\* KullbackLeiblerDivergence(p, q) on two fresh vectors
Score(p, q) ==
  LET r == KullbackLeiblerDivergence(p, q)
  IN  /\ phase = "init"
      /\ phase' = "scored"
      /\ interactBefore' = p
      /\ recommendedBefore' = q
      /\ interactDist' = p
      /\ recommendedDist' = r.recommendedDist
      /\ outcome' = r.outcome
      /\ klDive' = r.klDive
      /\ calls' = 1
      /\ prevOutcome' = "none"
      /\ prevKlDive' = << >>
      /\ NoAggregate

\* the same call once more, on the same two objects
ScoreAgain ==
  /\ phase = "scored"
  /\ calls < MaxCalls
  /\ LET r == KullbackLeiblerDivergence(interactDist, recommendedDist)
     IN  /\ phase' = "scored"
         /\ interactBefore' = interactDist
         /\ recommendedBefore' = recommendedDist
         /\ interactDist' = interactDist
         /\ recommendedDist' = r.recommendedDist
         /\ outcome' = r.outcome
         /\ klDive' = r.klDive
         /\ calls' = calls + 1
         /\ prevOutcome' = outcome
         /\ prevKlDive' = klDive
         /\ NoAggregate

\* ComputeGenreDistribution(items, p_g_i_final)
Aggregate(items) ==
  LET r == ComputeGenreDistribution(items)
  IN  /\ phase = "init"
      /\ phase' = "aggregated"
      /\ itemList' = items
      /\ aggOutcome' = r.outcome
      /\ aggDist' = r.dist
      /\ interactDist' = << >>
      /\ recommendedDist' = << >>
      /\ interactBefore' = << >>
      /\ recommendedBefore' = << >>
      /\ outcome' = "none"
      /\ klDive' = << >>
      /\ calls' = 0
      /\ prevOutcome' = "none"
      /\ prevKlDive' = << >>

Next ==
  \/ \E p \in Vectors, q \in Vectors : Score(p, q)
  \/ ScoreAgain
  \/ \E items \in ItemLists : Aggregate(items)

Spec == Init /\ [][Next]_vars

(***************************************************************************)
(* The value of klDive.  With every p a number of quarters n/4,            *)
(*   4 * sum(p * log2(p / q)) = log2(prod(p^n) / prod(q^n)),               *)
(* so sums of terms are compared exactly by comparing products.  The       *)
(* double the code returns differs from the real sum by the rounding of    *)
(* log2, of the products and of the additions (a few units of 2^-52 times  *)
(* the largest term); a comparison only counts as strict when the reals    *)
(* differ by far more than that.                                           *)
(***************************************************************************)
\* 4 * x for x a multiple of 1/4; 0 for the near-zero probability, whose
\* term p * log2(p / q) is below 2^-1060 in size
Quarters(x) ==
  IF \E k \in 0..4 : FDivInt(FromInt(k), 4) = x
  THEN CHOOSE k \in 0..4 : FDivInt(FromInt(k), 4) = x
  ELSE 0

\* a term whose smoothed q is 0.0: p / 0.0 is inf for numpy's float64 (with
\* a RuntimeWarning), log2(inf) is inf and p * inf is inf
InfiniteTerm(t) == FIsZero(t.q)
HasInfiniteTerm(kl) == \E i \in 1..Len(kl) : InfiniteTerm(kl[i])

RECURSIVE DPow(_, _)
DPow(x, n) == IF n = 0 THEN Dy(<<1>>, 0) ELSE DMul(x, DPow(x, n - 1))

RECURSIVE ProdP(_, _)
ProdP(kl, i) ==
  IF i > Len(kl) THEN Dy(<<1>>, 0)
  ELSE DMul(DPow(Dy(kl[i].p.m, kl[i].p.e), Quarters(kl[i].p)), ProdP(kl, i + 1))

RECURSIVE ProdQ(_, _)
ProdQ(kl, i) ==
  IF i > Len(kl) THEN Dy(<<1>>, 0)
  ELSE DMul(DPow(Dy(kl[i].q.m, kl[i].q.e), Quarters(kl[i].p)), ProdQ(kl, i + 1))

\* x * (1 + 2^-30)
WithMargin(x) == DAdd(x, Dy(x.m, x.e - 30))

\* 1 when the sum of a exceeds that of b beyond rounding, -1 when it is
\* below it beyond rounding, 0 otherwise
ScoreCmp(a, b) ==
  LET x == DMul(ProdP(a, 1), ProdQ(b, 1))
      y == DMul(ProdP(b, 1), ProdQ(a, 1))
  IN  IF HasInfiniteTerm(a) \/ HasInfiniteTerm(b)
      THEN (IF ~HasInfiniteTerm(b) THEN 1
            ELSE IF ~HasInfiniteTerm(a) THEN -1
            ELSE 0)
      ELSE IF DCmp(x, WithMargin(y)) >= 0 THEN 1
      ELSE IF DCmp(y, WithMargin(x)) >= 0 THEN -1
      ELSE 0

\* The sign of the double returned.  A term p * log2(p / q) is 0.0 exactly
\* when p = q (p / q is then 1.0 and log2(1.0) is 0.0), positive when
\* p > q and negative when p < q (the quotient of two different doubles
\* never rounds to 1.0).  Terms of one sign add up to that sign; terms of
\* both signs are decided by the exact products.  2 stands for a sum too
\* close to zero to decide.  The other terms are finite, so that one
\* infinite term makes the sum inf.
ScoreSign(kl) ==
  IF HasInfiniteTerm(kl) THEN 1
  ELSE IF \A i \in 1..Len(kl) : kl[i].p = kl[i].q THEN 0
  ELSE IF \A i \in 1..Len(kl) : FCmp(kl[i].p, kl[i].q) >= 0 THEN 1
  ELSE IF \A i \in 1..Len(kl) : FCmp(kl[i].p, kl[i].q) <= 0 THEN -1
  ELSE IF ScoreCmp(kl, << >>) = 1 THEN 1
  ELSE IF ScoreCmp(kl, << >>) = -1 THEN -1
  ELSE 2

Scored == phase = "scored"
Returned == phase = "scored" /\ outcome = "returned"

(***************************************************************************)
(* Claims                                                                  *)
(***************************************************************************)

\* C1: the scorer has no side effects: when a call returns, every entry of
\* interactDist and every entry of recommendedDist is what it was when the
\* call began.
C1_NoSideEffects ==
  Returned =>
    /\ interactDist = interactBefore
    /\ recommendedDist = recommendedBefore

\* the call scored a pair of distributions over the same categories
ValidPair(p, q) == ValidDist(p) /\ ValidDist(q) /\ Len(p) = Len(q)

\* C2: scoring the same p vector and the same q vector twice in succession
\* returns the same score the second time as the first (here: the same up
\* to rounding), for every valid pair the first call was given (the first
\* call's q is a vector of the caller: valid when it is as long as p).
C2_RepeatedCallSameScore ==
  (Returned /\ calls = 2 /\ prevOutcome = "returned"
     /\ ValidDist(interactBefore) /\ Len(interactBefore) = Len(recommendedBefore)) =>
    ScoreCmp(klDive, prevKlDive) = 0

\* C3: self-divergence is zero: for a valid distribution p and q equal to
\* p entry by entry, the score returned is exactly 0.
C3_SelfDivergenceZero ==
  (Returned /\ calls = 1 /\ ValidDist(interactBefore)
     /\ recommendedBefore = interactBefore) =>
    ScoreSign(klDive) = 0

AgreeOnSupport(p, q1, q2) ==
  /\ Len(q1) = Len(q2)
  /\ \A i \in 1..Len(q1) : (i <= Len(p) /\ ~FIsZero(p[i])) => q1[i] = q2[i]

\* C5: categories with p(c) = 0 never affect the score: every q2 of the
\* length of q that agrees with q wherever p(c) > 0 gets the same outcome
\* and the same terms, hence the same score, as q.
C5_ZeroCategoriesIgnored ==
  (Scored /\ calls = 1) =>
    \A q2 \in Vectors :
      AgreeOnSupport(interactBefore, recommendedBefore, q2) =>
        LET r == KullbackLeiblerDivergence(interactBefore, q2)
        IN  r.outcome = outcome /\ r.klDive = klDive

\* a returned score for which another q, different where p is zero, exists
C5_Witness ==
  /\ Returned /\ calls = 1 /\ klDive # << >>
  /\ \E q2 \in Vectors :
       /\ q2 # recommendedBefore
       /\ AgreeOnSupport(interactBefore, recommendedBefore, q2)

\* C6: the scorer fails, and returns no score, whenever len(p) # len(q),
\* with q shorter than p and with q longer than p (here for p and q that
\* are distributions, each over its own number of categories).
C6_DimensionMismatchFails ==
  (Scored /\ calls = 1 /\ ValidDist(interactBefore)
     /\ ValidDist(recommendedBefore)
     /\ Len(interactBefore) # Len(recommendedBefore)) =>
    outcome # "returned"

Aggregated == phase = "aggregated"

\* C7: the aggregator called with an empty item list fails and returns no
\* distribution.
C7_EmptyItemSetFails ==
  (Aggregated /\ itemList = << >>) => aggOutcome # "returned"

\* an id that is the index of a row of p_g_i_final: 0 .. NumRows - 1
ValidId(id) == 0 <= id /\ id < NumRows
ValidItemList(items) ==
  items # << >> /\ \A k \in 1..Len(items) : ValidId(items[k])

\* C8: the aggregator fails whenever an item id of the list is below the
\* first row index or at or beyond the row count; no such id is silently
\* mapped to some other row.
C8_InvalidItemReferenceFails ==
  (Aggregated /\ \E k \in 1..Len(itemList) : ~ValidId(itemList[k])) =>
    aggOutcome # "returned"

RECURSIVE FloatSumFrom(_, _, _)
FloatSumFrom(v, i, acc) ==
  IF i > Len(v) THEN acc ELSE FloatSumFrom(v, i + 1, FAdd(acc, v[i]))

\* the entries of v added up in double arithmetic, first to last
FloatSum(v) == FloatSumFrom(v, 1, FZero)

\* C9 as stated: for a non-empty list of valid ids, over rows that each sum
\* to 1, the entries of the vector returned are non-negative and sum to 1
\* (the sums taken in double arithmetic).
C9_SumsToOneExactly ==
  (Aggregated /\ ValidItemList(itemList)
     /\ \A r \in 1..NumRows : FloatSum(p_g_i_final[r]) = FOne) =>
    /\ aggOutcome = "returned"
    /\ \A c \in 1..Len(aggDist) : aggDist[c].cls = "fin"
    /\ FloatSum(aggDist) = FOne

\* C9, amended: for a non-empty list of valid ids, over rows that are
\* distributions, the vector returned is a distribution: its entries are
\* non-negative numbers, one per category, and sum to 1 within 1e-9.
C9_ValidDistribution ==
  (Aggregated /\ ValidItemList(itemList)
     /\ \A r \in 1..NumRows : ValidDist(p_g_i_final[r])) =>
    /\ aggOutcome = "returned"
    /\ Len(aggDist) = NumCols
    /\ ValidDist(aggDist)

\* several different valid rows were averaged and the entries returned do
\* not add up to 1.0
C9_Witness ==
  /\ Aggregated /\ ValidItemList(itemList) /\ aggOutcome = "returned"
  /\ \E j, k \in 1..Len(itemList) : itemList[j] # itemList[k]
  /\ FloatSum(aggDist) # FOne

\* how often id occurs in items
Occurrences(items, id) == Cardinality({k \in 1..Len(items) : items[k] = id})

\* sum over the rows r of (occurrences of r in items) * p_g_i_final[r][c],
\* as a real number
RECURSIVE WeightedSum(_, _, _)
WeightedSum(items, c, r) ==
  IF r > NumRows THEN Dy(<< >>, 0)
  ELSE DAdd(DMul(Dy(BFromInt(Occurrences(items, r - 1)), 0),
                 Dy(p_g_i_final[r][c].m, p_g_i_final[r][c].e)),
            WeightedSum(items, c, r + 1))

\* C10: for each category c the aggregator returns the sum over the list
\* entries, each of weight 1, of P[i][c], divided by the number of entries
\* (the sum of the weights); an id that occurs k times counts k times.
\* Stated without division: (number of entries) * result[c] is the weighted
\* sum, up to the rounding of the double arithmetic (within 1e-9).
C10_WeightedAverage ==
  (Aggregated /\ ValidItemList(itemList)) =>
    /\ aggOutcome = "returned"
    /\ Len(aggDist) = NumCols
    /\ \A c \in 1..NumCols :
         /\ aggDist[c].cls = "fin"
         /\ Within1e9(DMul(Dy(BFromInt(Len(itemList)), 0),
                           Dy(aggDist[c].m, aggDist[c].e)),
                      WeightedSum(itemList, c, 1))

\* a list in which an id occurs more than once, among other ids
C10_Witness ==
  /\ Aggregated /\ ValidItemList(itemList) /\ aggOutcome = "returned"
  /\ \E id \in 0..(NumRows - 1) : Occurrences(itemList, id) >= 2
  /\ \E j, k \in 1..Len(itemList) : itemList[j] # itemList[k]

\* C11: a call of the scorer that ends in an error has done no numeric work:
\* no term has been accumulated, and p and q are as they were before the
\* call.
C11_ErrorBeforeNumericWork ==
  (Scored /\ calls = 1 /\ outcome # "returned"
     /\ ValidDist(interactBefore) /\ ValidDist(recommendedBefore)) =>
    /\ klDive = << >>
    /\ interactDist = interactBefore
    /\ recommendedDist = recommendedBefore

\* C12: on a valid pair, every iteration that computes a term divides by a
\* smoothed q(c) that is strictly positive.
C12_SmoothedDenominatorPositive ==
  (Scored /\ calls = 1 /\ ValidPair(interactBefore, recommendedBefore)) =>
    \A i \in 1..Len(klDive) : FCmp(klDive[i].q, FZero) > 0

====
